---- MODULE Spec2Model ----
(***************************************************************************)
(* Model of the moderation synchronisation bot of src/src/main.ts (first   *)
(* revision, lines 1-556).  Every guild (server) holds, per user, a ban    *)
(* flag, a membership flag, a timeout expiry and a Muted-role membership.  *)
(* The bot holds syncData (bans, timeouts, mutedRoles) and the set         *)
(* processingUsers.  Handlers are async functions: each await is a point   *)
(* where another handler may run, so a handler is a task that advances     *)
(* from await to await.  The Discord session layer (REST calls, gateway    *)
(* events) is modelled from section 6 of the specification.                *)
(***************************************************************************)
EXTENDS Integers, Sequences, FiniteSets, TLC

\* ------------------------------------------------------------------ bounds
NGuilds == 2
MaxTime == 2
\* moderator actions, failed API calls and timer firings of one behaviour
MaxEnv == 2
\* handlers in flight plus notifications not yet dispatched
MaxPending == 3

Guilds == 1..NGuilds
\* Every handler reads and writes the entries of one user only; the model
\* follows one user.
Users == {1}
Pairs == Guilds \X Users
\* null / undefined timestamp (0 is falsy like null in "timeoutEnd && ...")
None == 0
Times == 1..(MaxTime + 1)

\* ------------------------------------------------------------------- state
VARIABLES
    banned,          \* banned[<<g,u>>]: u is on guild g's ban list
    member,          \* member[<<g,u>>]: u is a member of guild g
    tmo,             \* tmo[<<g,u>>]: communicationDisabledUntilTimestamp or None
    role,            \* role[<<g,u>>]: u carries a role named 'Muted' on g
    grole,           \* grole[g]: guild g has a role named 'Muted'
    bans,            \* syncData.bans
    timeouts,        \* syncData.timeouts (None = no entry)
    mutedRoles,      \* syncData.mutedRoles (NoRec = no entry)
    processingUsers, \* the reentrancy guard
    queue,           \* gateway events not yet dispatched, in order
    tasks,           \* handler invocations suspended at an await
    now,             \* Date.now()
    calls,           \* observer: per-guild mutation calls of a second invocation
    mods,            \* moderator actions so far
    fails,           \* failed API calls so far
    passes,          \* reconciliation passes started so far
    budget,          \* moderator actions, failures and timer firings allowed
    disk,            \* the content of data/syncData.json
    env,             \* whether the data file can be written; the updates channel
    unhandled        \* causes of promise rejections nobody handles, so far

vars == <<banned, member, tmo, role, grole, bans, timeouts, mutedRoles,
          processingUsers, queue, tasks, now, calls, mods, fails, passes,
          budget, disk, env, unhandled>>

NoRec == [muted |-> FALSE, originGuildId |-> 0]
HasRec(st, u) == st.mutedRoles[u].originGuildId # 0

\* What saveData writes: JSON.stringify(syncData).
Snapshot(b, t, m) == [bans |-> b, timeouts |-> t, mutedRoles |-> m]

\* The data file can be written and no updates channel is configured.
Sound == [writable |-> TRUE, channel |-> "off"]

\* The state the code of a handler reads and writes, as one record.
S ==
    [banned |-> banned, member |-> member, tmo |-> tmo, role |-> role,
     grole |-> grole, bans |-> bans, timeouts |-> timeouts,
     mutedRoles |-> mutedRoles, processingUsers |-> processingUsers,
     queue |-> queue, now |-> now, calls |-> calls, mods |-> mods,
     disk |-> disk, env |-> env, unhandled |-> unhandled,
     actor |-> "bot"]

Commit(st) ==
    /\ banned' = st.banned
    /\ member' = st.member
    /\ tmo' = st.tmo
    /\ role' = st.role
    /\ grole' = st.grole
    /\ bans' = st.bans
    /\ timeouts' = st.timeouts
    /\ mutedRoles' = st.mutedRoles
    /\ processingUsers' = st.processingUsers
    /\ queue' = st.queue
    /\ now' = st.now
    /\ disk' = st.disk
    /\ unhandled' = st.unhandled

\* ------------------------------------------------------------ gateway events
\* src and n are observers: who caused the event ("mod" or "bot"), and the
\* number of moderator actions when it was emitted.
Event(type, g, u, oldT, newT, had, has) ==
    [type |-> type, g |-> g, u |-> u, oldT |-> oldT, newT |-> newT,
     had |-> had, has |-> has, src |-> "none", n |-> 0]

NoEvent == Event("none", 0, 0, None, None, FALSE, FALSE)

Emit(st, e) ==
    [st EXCEPT !.queue = Append(@, [e EXCEPT !.src = st.actor, !.n = st.mods])]

\* ------------------------------------------------- session layer (section 6)
\* addBan: idempotent; a new ban removes the member and notifies ban-added.
ApiAddBan(st, g, u) ==
    IF st.banned[<<g, u>>] THEN st
    ELSE Emit([st EXCEPT !.banned[<<g, u>>] = TRUE,
                         !.member[<<g, u>>] = FALSE,
                         !.role[<<g, u>>] = FALSE,
                         !.tmo[<<g, u>>] = None],
              Event("banAdd", g, u, None, None, FALSE, FALSE))

\* removeBan fails (throws) when the user is not banned.
ApiRemoveBanOk(st, g, u) == st.banned[<<g, u>>]

ApiRemoveBan(st, g, u) ==
    Emit([st EXCEPT !.banned[<<g, u>>] = FALSE],
         Event("banRemove", g, u, None, None, FALSE, FALSE))

\* A member update notifies member-updated with the old and the new member.
MemberUpdated(st, g, u, newT, has) ==
    IF st.tmo[<<g, u>>] = newT /\ st.role[<<g, u>>] = has THEN st
    ELSE Emit([st EXCEPT !.tmo[<<g, u>>] = newT, !.role[<<g, u>>] = has],
              Event("memberUpdate", g, u, st.tmo[<<g, u>>], newT,
                    st.role[<<g, u>>], has))

\* setTimeout(member, duration | none): the expiry becomes now + duration.
ApiSetTimeout(st, g, u, clear, duration) ==
    MemberUpdated(st, g, u, IF clear THEN None ELSE st.now + duration,
                  st.role[<<g, u>>])

ApiAddRole(st, g, u) == MemberUpdated(st, g, u, st.tmo[<<g, u>>], TRUE)

ApiRemoveRole(st, g, u) == MemberUpdated(st, g, u, st.tmo[<<g, u>>], FALSE)

ApiCreateRole(st, g) == [st EXCEPT !.grole[g] = TRUE]

\* One more mutation call issued by the engine on guild g.
Called(st, g) == [st EXCEPT !.calls[g] = @ + 1]

\* ------------------------------------------------------------------ sweeps
\* A replicator suspended in its loop over client.guilds.cache.values():
\* op is the replicator, i the guild whose call is awaited next, stage the
\* await inside the iteration (the member call, or a pending roles.create).
\* clean, m0, src and fresh are observers: no call of the sweep has failed;
\* the number of moderator actions at the mutation or scan that triggered it;
\* what triggered it (the event of a "mod" or of the "bot", or a "scan"); and
\* whether the user had no mutedRoles record when it was triggered.
\* listed is bannedMsg of syncBans, as the guilds it names; changed is an
\* observer: the guilds whose ban list a call of this invocation has changed.
Sweep(op, u, b, e, origin, i, stage, has) ==
    [op |-> op, u |-> u, b |-> b, e |-> e, origin |-> origin, i |-> i,
     stage |-> stage, has |-> has, clean |-> TRUE, m0 |-> 0, src |-> "none",
     fresh |-> FALSE, listed |-> {}, changed |-> {}]

NoSweep == Sweep("none", 0, FALSE, None, 0, 0, "call", FALSE)

\* A replicator that has thrown before its loop.
Thrown == [NoSweep EXCEPT !.i = NGuilds + 2]

\* The promise of an event handler is rejected and nothing handles it
\* (unhandledRejection: under Node's default the process then terminates).
Rejected(st, cause) == [st EXCEPT !.unhandled = @ \cup {cause}]

\* ------------------------------------------- reportBotStatusToUpdatesChannel
\* Lines 202-219.  No channel id ("off"): it returns.  Otherwise the channel
\* is looked up and send() is called inside a try, and the promise of send()
\* is neither awaited nor given a catch.  A channel that is not in the cache
\* ("missing") is a TypeError that the catch logs; a send that the session
\* layer rejects ("rejects": no permission to post, channel deleted, network)
\* is a rejection nothing handles.  No caller awaits the function.
report(st) ==
    IF st.env.channel = "rejects" THEN Rejected(st, "emit") ELSE st

\* The process has terminated on an unhandled rejection.
Halted == "exit" \in unhandled

\* syncMutedRole skips the origin guild without awaiting anything.
SkipGuild(op, origin, i) == op = "mute" /\ i = origin

NextGuild(op, origin, from) ==
    IF \E i \in from..NGuilds : ~SkipGuild(op, origin, i)
    THEN CHOOSE i \in from..NGuilds :
            /\ ~SkipGuild(op, origin, i)
            /\ \A j \in from..(i - 1) : SkipGuild(op, origin, j)
    ELSE NGuilds + 1

Advance(sw) ==
    [sw EXCEPT !.i = IF sw.op \in {"revert", "correct"} THEN NGuilds + 1
                     ELSE NextGuild(sw.op, sw.origin, sw.i + 1),
               !.stage = "call"]

\* ---------------------------------------------------------------- saveData
\* Lines 53-56: fs.writeFileSync of the whole of syncData; it throws when the
\* file cannot be written, and the file keeps what it held.
SaveThrows(st) == ~st.env.writable

\* Variant: nothing is written.
saveDataSkipped(st) == st

saveData(st) ==
    IF SaveThrows(st) THEN st
    ELSE [st EXCEPT !.disk = Snapshot(st.bans, st.timeouts, st.mutedRoles)]

\* --------------------------------------------------------------- syncBans
\* Synchronous part before the first await: write the flag, save.
syncBans(st, u, isBanned) == saveData([st EXCEPT !.bans[u] = isBanned])

\* One iteration of the loop: bans.create / bans.remove, errors swallowed.
syncBansGuild(st, sw, ok) ==
    IF sw.b
    THEN IF ok THEN ApiAddBan(Called(st, sw.i), sw.i, sw.u)
               ELSE Called(st, sw.i)
    ELSE IF ok /\ ApiRemoveBanOk(st, sw.i, sw.u)
         THEN ApiRemoveBan(Called(st, sw.i), sw.i, sw.u)
         ELSE Called(st, sw.i)

\* Lines 73-82 and 87-92: the guild of the iteration is pushed to bannedMsg
\* after bans.create has returned, or after bans.remove has returned a user,
\* unless it is originGuild.
syncBansListed(st, sw, ok) ==
    [sw EXCEPT
        !.listed =
            IF /\ ok
               /\ sw.i # sw.origin
               /\ sw.b \/ ApiRemoveBanOk(st, sw.i, sw.u)
            THEN @ \cup {sw.i} ELSE @,
        !.changed =
            IF ok /\ st.banned[<<sw.i, sw.u>>] # sw.b
            THEN @ \cup {sw.i} ELSE @]

\* ----------------------------------------------------------- syncTimeouts
\* Variant: the expiry is kept as it comes.
NormalizeNever(t, e) == e

\* "timeoutEnd && timeoutEnd > Date.now()", else null.
NormalizeTimeout(t, e) == IF e # None /\ e > t THEN e ELSE None

syncTimeouts(st, u, timeoutEnd) ==
    saveData([st EXCEPT !.timeouts[u] = NormalizeTimeout(st.now, timeoutEnd)])

\* Variant: the call is issued without comparing.
TimeoutDiffersAlways(currentTimeout, timeoutEnd) == TRUE

\* Variant: no call is issued.
TimeoutDiffersNever(currentTimeout, timeoutEnd) == FALSE

\* The per-guild comparison: the raw local expiry against the target.
TimeoutDiffers(currentTimeout, timeoutEnd) == currentTimeout # timeoutEnd

syncTimeoutsGuild(st, sw, ok) ==
    IF st.member[<<sw.i, sw.u>>]
       /\ TimeoutDiffers(st.tmo[<<sw.i, sw.u>>], sw.e)
    THEN IF ok
         THEN ApiSetTimeout(Called(st, sw.i), sw.i, sw.u, sw.e = None,
                            sw.e - st.now)
         ELSE Called(st, sw.i)
    ELSE st

\* ---------------------------------------------------------- syncMutedRole
\* The guard: a user already being processed is left alone.
Guarded(st, u) == u \in st.processingUsers

\* Synchronous part: guard, mark, write the record, save.
syncMutedRole(st, u, muted, originGuildId) ==
    IF Guarded(st, u) THEN st
    ELSE saveData([st EXCEPT !.processingUsers = @ \cup {u},
                             !.mutedRoles[u] =
                                [muted |-> muted,
                                 originGuildId |-> originGuildId]])

\* Variant: the membership is never touched.
ApplyRoleNever(st, g, u, muted, has, ok) == st

\* Variant: the role call is issued without comparing the membership.
ApplyRoleAlways(st, g, u, muted, has, ok) ==
    IF ~ok THEN Called(st, g)
    ELSE IF muted THEN ApiAddRole(Called(st, g), g, u)
    ELSE ApiRemoveRole(Called(st, g), g, u)

\* The role add / remove of one guild, when the membership differs.
ApplyRole(st, g, u, muted, has, ok) ==
    IF muted = has THEN st
    ELSE IF ~ok THEN Called(st, g)
    ELSE IF muted THEN ApiAddRole(Called(st, g), g, u)
    ELSE ApiRemoveRole(Called(st, g), g, u)

\* One await of the loop body of syncMutedRole on guild sw.i.
syncMutedRoleGuild(st, sw, ok) ==
    CASE sw.stage = "call" ->
            IF ~st.member[<<sw.i, sw.u>>]
            THEN [st |-> st, sw |-> Advance(sw)]
            ELSE IF ~st.grole[sw.i]
            THEN [st |-> st, sw |-> [sw EXCEPT !.stage = "create"]]
            ELSE [st |-> ApplyRole(st, sw.i, sw.u, sw.b,
                                   st.role[<<sw.i, sw.u>>], ok),
                  sw |-> Advance(sw)]
      [] sw.stage = "create" ->
            IF ok
            THEN [st |-> report(ApiCreateRole(Called(st, sw.i), sw.i)),
                  sw |-> [sw EXCEPT !.stage = "apply"]]
            ELSE [st |-> Called(st, sw.i), sw |-> Advance(sw)]
      [] OTHER ->
            [st |-> ApplyRole(st, sw.i, sw.u, sw.b, FALSE, ok),
             sw |-> Advance(sw)]

\* ------------------------------------------- revert / correction (one guild)
\* guildMemberUpdate, non-origin branch, and periodicSync, non-origin branch:
\* the role of one guild is set back to the recorded value.
FixGuild(st, sw, ok) ==
    IF sw.stage = "create"
    THEN IF ok
         THEN [st |-> [report(ApiCreateRole(Called(st, sw.i), sw.i))
                          EXCEPT !.processingUsers = @ \cup {sw.u}],
               sw |-> [sw EXCEPT !.stage = "apply", !.has = FALSE,
                                 !.b = IF sw.op = "revert"
                                       THEN st.mutedRoles[sw.u].muted
                                       ELSE sw.b]]
         \* roles.create throws: the handler ends where it is
         ELSE [st |-> Called(st, sw.i),
               sw |-> [sw EXCEPT !.i = NGuilds + 2]]
    ELSE [st |-> IF ok /\ sw.b # sw.has
                 THEN report(ApplyRole(st, sw.i, sw.u, sw.b, sw.has, ok))
                 ELSE ApplyRole(st, sw.i, sw.u, sw.b, sw.has, ok),
          sw |-> IF ok \/ sw.b = sw.has THEN Advance(sw)
                 ELSE [sw EXCEPT !.i = NGuilds + 2]]

\* Variant: a failed call ends the loop of the replicator.
SweepStepAborts(st, sw, ok) ==
    IF ~ok /\ sw.op \in {"ban", "tmo", "mute"}
    THEN [st |-> Called(st, sw.i), sw |-> [sw EXCEPT !.i = NGuilds + 2]]
    ELSE CASE sw.op = "ban" ->
                [st |-> syncBansGuild(st, sw, ok),
             sw |-> Advance(syncBansListed(st, sw, ok))]
          [] sw.op = "tmo" ->
                [st |-> syncTimeoutsGuild(st, sw, ok), sw |-> Advance(sw)]
          [] sw.op = "mute" -> syncMutedRoleGuild(st, sw, ok)
          [] OTHER -> FixGuild(st, sw, ok)

\* One await of a sweep: the call of guild sw.i takes effect (or fails).
SweepStep(st, sw, ok) ==
    CASE sw.op = "ban" ->
            [st |-> syncBansGuild(st, sw, ok),
             sw |-> Advance(syncBansListed(st, sw, ok))]
      [] sw.op = "tmo" ->
            [st |-> syncTimeoutsGuild(st, sw, ok), sw |-> Advance(sw)]
      [] sw.op = "mute" -> syncMutedRoleGuild(st, sw, ok)
      [] OTHER -> FixGuild(st, sw, ok)

\* After the loop: the guard is cleared (syncMutedRole line 198, revert line
\* 332, correction line 438).  An exception thrown by the revert or the
\* correction (i = NGuilds + 2) skips the delete.
ClearGuard(st, u) == [st EXCEPT !.processingUsers = @ \ {u}]

\* The replicators send their summary first (lines 100, 136, 197).
SweepFinish(st, sw) ==
    IF sw.op \in {"revert", "correct"} /\ sw.i = NGuilds + 1
    THEN ClearGuard(st, sw.u)
    ELSE IF sw.op = "mute" /\ sw.i = NGuilds + 1
    THEN ClearGuard(report(st), sw.u)
    ELSE IF sw.op \in {"ban", "tmo"} /\ sw.i = NGuilds + 1
    THEN report(st)
    ELSE st

\* ------------------------------------------------------------------- tasks
\* A handler invocation suspended at an await.  kind: "event" (a gateway
\* event handler) or "periodic" (periodicSync); pc: what follows the await;
\* g, todo: the guild being scanned (or the guild of the event) and the users
\* still to visit in it; ev: the event, while the handler still reads it;
\* sw: the replicator sweep being awaited; obs: observers of a pass.
\* The observers of a periodicSync invocation: the moderator actions and the
\* failed calls when it was called, whether nothing else was pending then,
\* syncData.bans then, the users whose recorded timeout had expired then while
\* the guilds still showed it, the fetches of this pass that failed, and whether
\* it is the pass of the ready handler.  Of a guildCreate invocation: the
\* users to whom it applied a recorded timeout that had expired.  lapsed: the
\* users whose recorded timeout had expired when the pass was called.
NoObs ==
    [m0 |-> 0, f0 |-> 0, quiet |-> FALSE, bans |-> <<>>, expired |-> {},
     skipped |-> {}, initial |-> FALSE, stale |-> {}, lapsed |-> {}]

Task(kind, pc, g, todo, ev, sw) ==
    [kind |-> kind, pc |-> pc, g |-> g, todo |-> todo, ev |-> ev, sw |-> sw,
     obs |-> NoObs]

Finished == Task("done", "done", 0, <<>>, NoEvent, NoSweep)

BanSweep(u, isBanned, originGuild) ==
    Sweep("ban", u, isBanned, None, originGuild, 1, "call", FALSE)

TimeoutSweep(st, u, timeoutEnd) ==
    Sweep("tmo", u, FALSE, NormalizeTimeout(st.now, timeoutEnd), 0, 1,
          "call", FALSE)

MuteSweep(u, muted, originGuildId) ==
    Sweep("mute", u, muted, None, originGuildId,
          NextGuild("mute", originGuildId, 1), "call", FALSE)

\* ------------------------------------------------- guildBanAdd / guildBanRemove
\* "if (syncData.bans[userId]) return" / "if (!syncData.bans[userId]) return"
BanEventDropped(st, e) ==
    IF e.type = "banAdd" THEN st.bans[e.u] ELSE ~st.bans[e.u]

OnBanEvent(st, e) ==
    IF BanEventDropped(st, e) THEN [st |-> st, t |-> Finished]
    ELSE IF SaveThrows(st)
    THEN [st |-> Rejected(syncBans(st, e.u, e.type = "banAdd"), "save"),
          t |-> Finished]
    ELSE [st |-> syncBans(st, e.u, e.type = "banAdd"),
          t |-> Task("event", "lastSweep", e.g, <<>>, NoEvent,
                     BanSweep(e.u, e.type = "banAdd", e.g))]

\* ------------------------------------------------------------ guildMemberUpdate
\* Variant: the record adopts the value of the event's guild.
RevertAdopts(st, e) ==
    [st |-> [st EXCEPT !.mutedRoles[e.u].muted = e.has], sw |-> NoSweep]

\* The non-origin branch (lines 299-333): the role of the event's guild is
\* set back to the recorded value under the guard.
Revert(st, e) ==
    IF ~st.grole[e.g]
    THEN [st |-> report(st),
          sw |-> Sweep("revert", e.u, FALSE, None, 0, e.g, "create", e.has)]
    ELSE IF st.mutedRoles[e.u].muted = e.has
    THEN [st |-> report(st), sw |-> NoSweep]
    ELSE [st |-> [report(st) EXCEPT !.processingUsers = @ \cup {e.u}],
          sw |-> Sweep("revert", e.u, st.mutedRoles[e.u].muted, None, 0,
                       e.g, "apply", e.has)]

\* Variant: every guild is treated as the origin.
AlwaysOrigin(st, e) == TRUE

\* Variant: the comparison with the recorded origin is inverted.
IsOriginEventInverted(st, e) ==
    ~HasRec(st, e.u) \/ st.mutedRoles[e.u].originGuildId # e.g

\* The event's guild is treated as the origin: no record, or the recorded one.
IsOriginEvent(st, e) ==
    ~HasRec(st, e.u) \/ st.mutedRoles[e.u].originGuildId = e.g

\* Lines 274-334: the Muted-role part of the handler.
MutePart(st, e) ==
    IF e.had = e.has \/ Guarded(st, e.u) THEN [st |-> st, sw |-> NoSweep]
    ELSE IF IsOriginEvent(st, e) /\ SaveThrows(st)
    THEN [st |-> Rejected(syncMutedRole(st, e.u, e.has, e.g), "save"),
          sw |-> NoSweep]
    ELSE IF IsOriginEvent(st, e)
    THEN [st |-> syncMutedRole(st, e.u, e.has, e.g),
          sw |-> [MuteSweep(e.u, e.has, e.g) EXCEPT !.fresh = ~HasRec(st, e.u)]]
    ELSE Revert(st, e)

\* "if (oldTimeout !== newTimeout)": the raw values of the event.
TimeoutChanged(e) == e.oldT # e.newT

OnMemberUpdate(st, e) ==
    IF TimeoutChanged(e) /\ SaveThrows(st)
    THEN [st |-> Rejected(syncTimeouts(st, e.u, e.newT), "save"),
          t |-> Finished]
    ELSE IF TimeoutChanged(e)
    THEN [st |-> syncTimeouts(st, e.u, e.newT),
          t |-> Task("event", "timeoutSweep", e.g, <<>>, e,
                     TimeoutSweep(st, e.u, e.newT))]
    ELSE LET r == MutePart(st, e) IN
         [st |-> r.st,
          t |-> IF r.sw = NoSweep THEN Finished
                ELSE Task("event", "lastSweep", e.g, <<>>, NoEvent, r.sw)]

Dispatch(st, e) ==
    IF e.type = "memberUpdate" THEN OnMemberUpdate(st, e)
    ELSE OnBanEvent(st, e)

\* ---------------------------------------------------------------- periodicSync
\* The users of a fetched collection, in the order of iteration.
RECURSIVE UserSeq(_)
UserSeq(us) ==
    IF us = {} THEN <<>>
    ELSE LET u == CHOOSE x \in us : \A y \in us : x <= y IN
         <<u>> \o UserSeq(us \ {u})

\* End of the member loop of guild t.g: the next guild, or the pass is over.
NextMemberGuild(t) ==
    IF t.g < NGuilds
    THEN [Task("periodic", "fetchMembers", t.g + 1, <<>>, NoEvent, NoSweep)
            EXCEPT !.obs = t.obs]
    ELSE Finished

\* End of the ban loop of guild t.g: the next guild, or the member phase.
NextBanGuild(t) ==
    [Task("periodic", IF t.g < NGuilds THEN "fetchBans" ELSE "fetchMembers",
          IF t.g < NGuilds THEN t.g + 1 ELSE 1, <<>>, NoEvent, NoSweep)
        EXCEPT !.obs = t.obs]

\* Lines 343-355: the bans of guild t.g still to visit.
RECURSIVE ScanBans(_, _)
ScanBans(st, t) ==
    IF t.todo = <<>> THEN [st |-> st, t |-> NextBanGuild(t)]
    ELSE LET u == Head(t.todo) IN
         IF ~st.bans[u] /\ SaveThrows(st)
         \* caught by the catch of the guild's try (line 356)
         THEN [st |-> report(syncBans(st, u, TRUE)), t |-> NextBanGuild(t)]
         ELSE IF ~st.bans[u]
         THEN [st |-> syncBans(st, u, TRUE),
               t |-> [t EXCEPT !.pc = "banSweep", !.todo = Tail(@),
                               !.sw = [BanSweep(u, TRUE, t.g)
                                       EXCEPT !.m0 = st.mods,
                                              !.src = "scan"]]]
         ELSE ScanBans(st, [t EXCEPT !.todo = Tail(@)])

\* Variant: the expiry as the guild shows it.
RawTimeout(st, g, u) == st.tmo[<<g, u>>]

\* Lines 370-374: the live expiry, an expired one read as null.
LiveTimeout(st, g, u) == NormalizeTimeout(st.now, st.tmo[<<g, u>>])

\* Lines 406-440: the non-origin correction of guild g.
Correct(st, g, u, muted, has) ==
    [st |-> [report(st) EXCEPT !.processingUsers = @ \cup {u}],
     sw |-> Sweep("correct", u, muted, None, 0, g,
                  IF st.grole[g] THEN "apply" ELSE "create", has)]

\* Lines 388-451: the Muted-role part for member u of guild g.
ScanMute(st, g, u) ==
    LET has == st.role[<<g, u>>]
        storedMutedData == st.mutedRoles[u]
    IN  IF HasRec(st, u)
        THEN IF g = storedMutedData.originGuildId
             \* lines 393-405: a change at the origin is reported only
             THEN [st |-> IF has # storedMutedData.muted THEN report(st)
                          ELSE st,
                   sw |-> NoSweep]
             ELSE IF has # storedMutedData.muted
             THEN Correct(st, g, u, storedMutedData.muted, has)
             ELSE [st |-> st, sw |-> NoSweep]
        ELSE IF has /\ ~Guarded(st, u) /\ SaveThrows(st)
        THEN [st |-> syncMutedRole(st, u, TRUE, g), sw |-> Thrown]
        ELSE IF has /\ ~Guarded(st, u)
        THEN [st |-> syncMutedRole(st, u, TRUE, g),
              sw |-> [MuteSweep(u, TRUE, g) EXCEPT !.fresh = TRUE]]
        ELSE [st |-> st, sw |-> NoSweep]

\* Lines 366-452: the members of guild t.g still to visit; part is "tmo"
\* before the timeout comparison of the first of them, "mute" after it.
RECURSIVE ScanMembers(_, _, _)
ScanMembers(st, t, part) ==
    IF t.todo = <<>> THEN [st |-> st, t |-> NextMemberGuild(t)]
    ELSE LET u == Head(t.todo) IN
         IF part = "tmo"
         THEN IF st.timeouts[u] # LiveTimeout(st, t.g, u) /\ SaveThrows(st)
              \* caught by the catch of the guild's try (line 453)
              THEN [st |-> report(syncTimeouts(st, u,
                                                LiveTimeout(st, t.g, u))),
                    t |-> NextMemberGuild(t)]
              ELSE IF st.timeouts[u] # LiveTimeout(st, t.g, u)
              THEN [st |-> syncTimeouts(st, u, LiveTimeout(st, t.g, u)),
                    t |-> [t EXCEPT !.pc = "tmoSweep",
                              !.sw = [TimeoutSweep(st, u,
                                         LiveTimeout(st, t.g, u))
                                      EXCEPT !.m0 = st.mods,
                                             !.src = "scan"]]]
              ELSE ScanMembers(st, t, "mute")
         ELSE LET r == ScanMute(st, t.g, u) IN
              IF r.sw = Thrown
              THEN [st |-> report(r.st), t |-> NextMemberGuild(t)]
              ELSE IF r.sw = NoSweep
              THEN ScanMembers(r.st, [t EXCEPT !.todo = Tail(@)], "tmo")
              ELSE [st |-> r.st,
                    t |-> [t EXCEPT !.pc = "muteSweep", !.todo = Tail(@),
                                    !.sw = [r.sw EXCEPT !.m0 = st.mods,
                                                        !.src = "scan"]]]

\* ------------------------------------------------- what follows a finished sweep
Threw(sw) == sw.i = NGuilds + 2

\* A replicator called directly with the arguments a: a.type is the
\* replicator, a.u the user, a.has the flag, a.newT the expiry, a.g the origin.
Invoke(st, a) ==
    CASE SaveThrows(st) /\ (a.type = "mute" => ~Guarded(st, a.u)) ->
            [st |-> IF a.type = "ban" THEN syncBans(st, a.u, a.has)
                    ELSE IF a.type = "tmo" THEN syncTimeouts(st, a.u, a.newT)
                    ELSE syncMutedRole(st, a.u, a.has, a.g),
             sw |-> NoSweep]
      [] a.type = "ban" ->
            [st |-> syncBans(st, a.u, a.has), sw |-> BanSweep(a.u, a.has, a.g)]
      [] a.type = "tmo" ->
            [st |-> syncTimeouts(st, a.u, a.newT),
             sw |-> TimeoutSweep(st, a.u, a.newT)]
      [] OTHER ->
            IF Guarded(st, a.u) THEN [st |-> st, sw |-> NoSweep]
            ELSE [st |-> syncMutedRole(st, a.u, a.has, a.g),
                  sw |-> MuteSweep(a.u, a.has, a.g)]

\* The same replicator called again with the same arguments, as soon as the
\* first invocation has returned.
InvokeAgain(st, t) ==
    LET r == Invoke(st, t.ev) IN
    [st |-> r.st,
     t |-> IF r.sw = NoSweep THEN Finished
           ELSE [t EXCEPT !.pc = "second", !.ev = NoEvent,
                          !.sw = [r.sw EXCEPT !.clean = t.sw.clean]]]

Resume(st, t) ==
    LET t0 == [t EXCEPT !.sw = NoSweep] IN
    CASE t.kind = "event" /\ t.pc = "timeoutSweep" ->
            LET r == MutePart(st, t.ev) IN
            [st |-> r.st,
             t |-> IF r.sw = NoSweep THEN Finished
                   ELSE [t0 EXCEPT !.pc = "lastSweep", !.ev = NoEvent,
                                   !.sw = [r.sw EXCEPT !.m0 = t.sw.m0,
                                                       !.src = t.sw.src]]]
      [] t.kind = "event" /\ t.pc # "timeoutSweep" ->
            \* a rejected call of the revert rejects the handler
            [st |-> IF Threw(t.sw) THEN Rejected(st, "call") ELSE st,
             t |-> Finished]
      [] t.kind = "twice" /\ t.pc = "first" -> InvokeAgain(st, t)
      [] t.kind = "twice" /\ t.pc # "first" -> [st |-> st, t |-> Finished]
      [] t.kind = "periodic" /\ t.pc = "banSweep" -> ScanBans(st, t0)
      [] t.kind = "periodic" /\ t.pc = "tmoSweep" ->
            ScanMembers(st, t0, "mute")
      [] OTHER ->
            \* an exception of the correction is caught by the catch of
            \* the guild's try (line 453): its other members are skipped
            IF Threw(t.sw)
            THEN [st |-> report(st), t |-> NextMemberGuild(t0)]
            ELSE ScanMembers(st, t0, "tmo")

\* ----------------------------------------------------------------- actions
\* The calls of the second of two successive invocations are counted.
Counted(t) == t.kind = "twice" /\ t.pc = "second"

Remove(seq, k) == SubSeq(seq, 1, k - 1) \o SubSeq(seq, k + 1, Len(seq))

Put(seq, k, t) == IF t = Finished THEN Remove(seq, k) ELSE [seq EXCEPT ![k] = t]

Idle == tasks = <<>> /\ queue = <<>>

\* The session layer dispatches the oldest pending notification: the handler
\* runs up to its first await.
Deliver ==
    /\ queue # <<>>
    /\ LET e == Head(queue)
           st == [S EXCEPT !.queue = Tail(@)]
           r == Dispatch(st, e)
       IN  /\ Len(tasks) + Len(r.st.queue) < MaxPending
           /\ Commit(r.st)
           /\ tasks' = IF r.t = Finished THEN tasks
                       ELSE Append(tasks, [r.t EXCEPT !.sw.m0 = e.n,
                                                       !.sw.src = e.src])
    /\ UNCHANGED <<budget, env, calls, mods, fails, passes>>

\* The awaited call of a sweep takes effect (or fails) and the loop moves on.
SweepAwait ==
    \E k \in DOMAIN tasks : \E ok \in BOOLEAN :
        /\ tasks[k].sw.op # "none"
        /\ tasks[k].sw.i <= NGuilds
        /\ LET r == SweepStep(S, tasks[k].sw, ok) IN
            /\ ok \/ (mods + fails + passes < budget /\ r.st.calls # calls)
            /\ Len(tasks) + Len(r.st.queue) <= MaxPending
            /\ Commit(r.st)
            /\ tasks' = [tasks EXCEPT ![k].sw =
                            [r.sw EXCEPT !.clean = @ /\ ok]]
            /\ calls' = IF Counted(tasks[k]) THEN r.st.calls ELSE calls
            /\ fails' = IF ok THEN fails ELSE fails + 1
        /\ UNCHANGED <<budget, env, mods, passes>>

\* The loop of a sweep is over: the code after it runs, then the caller's,
\* up to the next await.
SweepDone ==
    \E k \in DOMAIN tasks :
        /\ tasks[k].sw.op # "none"
        /\ tasks[k].sw.i > NGuilds
        /\ LET r == Resume(SweepFinish(S, tasks[k].sw), tasks[k]) IN
            /\ Commit(r.st)
            /\ tasks' = Put(tasks, k, r.t)
        /\ UNCHANGED <<budget, env, calls, mods, fails, passes>>

\* The fetch of guild t.g has failed in the phase t is in.
Skipped(t) == [t EXCEPT !.obs.skipped = @ \cup {<<t.pc, t.g>>}]

\* Variant: a failed ban fetch ends the pass.
FetchBansAborts ==
    \E k \in DOMAIN tasks : \E ok \in BOOLEAN :
        /\ tasks[k].pc = "fetchBans"
        /\ ok \/ mods + fails + passes < budget
        /\ LET t == tasks[k]
               r == IF ok
                    THEN ScanBans(S, [t EXCEPT !.todo =
                            UserSeq({u \in Users : banned[<<t.g, u>>]})])
                    ELSE [st |-> S, t |-> Finished]
           IN  /\ Commit(r.st)
               /\ tasks' = Put(tasks, k, r.t)
        /\ fails' = IF ok THEN fails ELSE fails + 1
        /\ UNCHANGED <<budget, env, calls, mods, passes>>

\* periodicSync line 342: guild.bans.fetch() returns, or fails (line 356).
FetchBans ==
    \E k \in DOMAIN tasks : \E ok \in BOOLEAN :
        /\ tasks[k].pc = "fetchBans"
        /\ ok \/ mods + fails + passes < budget
        /\ LET t == tasks[k]
               r == IF ok
                    THEN ScanBans(S, [t EXCEPT !.todo =
                            UserSeq({u \in Users : banned[<<t.g, u>>]})])
                    ELSE [st |-> report(S), t |-> NextBanGuild(Skipped(t))]
           IN  /\ Commit(r.st)
               /\ tasks' = Put(tasks, k, r.t)
        /\ fails' = IF ok THEN fails ELSE fails + 1
        /\ UNCHANGED <<budget, env, calls, mods, passes>>

\* periodicSync line 365: guild.members.fetch() returns, or fails (line 453).
FetchMembers ==
    \E k \in DOMAIN tasks : \E ok \in BOOLEAN :
        /\ tasks[k].pc = "fetchMembers"
        /\ ok \/ mods + fails + passes < budget
        /\ LET t == tasks[k]
               r == IF ok
                    THEN ScanMembers(S, [t EXCEPT !.todo =
                            UserSeq({u \in Users : member[<<t.g, u>>]})], "tmo")
                    ELSE [st |-> report(S),
                          t |-> NextMemberGuild(Skipped(t))]
           IN  /\ Commit(r.st)
               /\ tasks' = Put(tasks, k, r.t)
        /\ fails' = IF ok THEN fails ELSE fails + 1
        /\ UNCHANGED <<budget, env, calls, mods, passes>>

\* The recorded timeout of u has expired and the guilds where u is a member
\* show it or none, one of them showing it.
ExpiredShown(u) ==
    /\ timeouts[u] # None /\ timeouts[u] < now
    /\ \E g \in Guilds : member[<<g, u>>] /\ tmo[<<g, u>>] = timeouts[u]
    /\ \A g \in Guilds :
            member[<<g, u>>] => tmo[<<g, u>>] \in {timeouts[u], None}

\* The recorded timeout of u lies before the current time.
Lapsed(u) == timeouts[u] # None /\ timeouts[u] < now

\* periodicSync is called: the first await is the ban fetch of the first guild.
PassStart ==
    [Task("periodic", "fetchBans", 1, <<>>, NoEvent, NoSweep)
        EXCEPT !.obs = [NoObs EXCEPT !.m0 = mods, !.f0 = fails,
                                     !.quiet = Idle,
                                     !.bans = bans,
                                     !.expired = {u \in Users : ExpiredShown(u)},
                                     !.lapsed = {u \in Users : Lapsed(u)}]]

\* setInterval(periodicSync, 60 * 1000) fires.
StartPeriodic ==
    /\ ~Halted
    /\ mods + fails + passes < budget
    /\ Len(tasks) + Len(queue) < MaxPending
    /\ passes' = passes + 1
    /\ tasks' = Append(tasks, PassStart)
    /\ UNCHANGED <<budget, env, banned, member, tmo, role, grole, bans, timeouts,
                   mutedRoles, processingUsers, queue, now, calls, mods,
                   fails, disk, unhandled>>

\* The ready handler (lines 533-551) after loadData(), suspended at the
\* members.fetch() of the first guild.
ReadyStart == Task("ready", "readyFetch", 1, <<>>, NoEvent, NoSweep)

\* "await periodicSync()" of the ready handler: the initial pass.
InitialPass == [PassStart EXCEPT !.obs.initial = TRUE]

\* The members.fetch() of the ready handler returns or fails (caught, line
\* 541): the next guild follows, then the initial pass.
ReadyFetch ==
    \E k \in DOMAIN tasks : \E ok \in BOOLEAN :
        /\ tasks[k].pc = "readyFetch"
        /\ ok \/ mods + fails + passes < budget
        /\ tasks' = [tasks EXCEPT ![k] =
                        IF tasks[k].g < NGuilds
                        THEN [tasks[k] EXCEPT !.g = @ + 1]
                        ELSE InitialPass]
        /\ fails' = IF ok THEN fails ELSE fails + 1
        /\ unhandled' = IF ok THEN unhandled ELSE report(S).unhandled
        /\ UNCHANGED <<budget, env, banned, member, tmo, role, grole, bans,
                       timeouts, mutedRoles, processingUsers, queue, now,
                       calls, mods, passes, disk>>

\* ------------------------------------------------------------ guildCreate
\* The guildCreate handler (lines 464-530) for guild g, suspended at its
\* guild.members.fetch().  g is the joined guild, Head(todo) the user of the
\* loop iteration under way, ev.newT the expiry of an awaited member.timeout.
JoinStart(g) == Task("join", "joinFetch", g, <<>>, NoEvent, NoSweep)

\* Variant: the ban is created on the first guild of the cache.
JoinBanFirstGuild(st, g, u) == ApiAddBan(Called(st, 1), 1, u)

\* Line 480: guild.bans.create(userId) on the joined guild.
JoinBan(st, g, u) == ApiAddBan(Called(st, g), g, u)

\* Lines 517-528: the Muted-role loop from the users in t.todo on; a record
\* that is not muted is passed over.
RECURSIVE JoinMutes(_, _)
JoinMutes(st, t) ==
    IF t.todo = <<>> THEN Finished
    ELSE IF st.mutedRoles[Head(t.todo)].muted
    THEN [t EXCEPT !.pc = "joinMuteFetch"]
    ELSE JoinMutes(st, [t EXCEPT !.todo = Tail(@)])

\* "for (const userId in syncData.mutedRoles)"
JoinMutesStart(st, t) ==
    JoinMutes(st, [t EXCEPT !.todo = UserSeq({u \in Users : HasRec(st, u)})])

\* Lines 491-502: the timeout loop from the users in t.todo on; an entry
\* deleted since the loop began is not visited.
RECURSIVE JoinTimeouts(_, _)
JoinTimeouts(st, t) ==
    IF t.todo = <<>> THEN JoinMutesStart(st, t)
    ELSE IF st.timeouts[Head(t.todo)] # None
    THEN [t EXCEPT !.pc = "joinTmoFetch"]
    ELSE JoinTimeouts(st, [t EXCEPT !.todo = Tail(@)])

\* "for (const userId in syncData.timeouts)"
JoinTimeoutsStart(st, t) ==
    JoinTimeouts(st, [t EXCEPT
        !.todo = UserSeq({u \in Users : st.timeouts[u] # None})])

\* Lines 476-488: the ban loop from the users in t.todo on.
RECURSIVE JoinBans(_, _)
JoinBans(st, t) ==
    IF t.todo = <<>> THEN JoinTimeoutsStart(st, t)
    ELSE IF st.bans[Head(t.todo)]
    THEN [t EXCEPT !.pc = "joinBan"]
    ELSE JoinBans(st, [t EXCEPT !.todo = Tail(@)])

\* "for (const userId in syncData.bans)"
JoinBansStart(st, t) == JoinBans(st, [t EXCEPT !.todo = UserSeq(Users)])

\* The awaited call of the handler t returns (ok) or rejects, and the handler
\* runs up to its next await.  Every rejection is caught (lines 470, 484,
\* 499, 525) or turned into null (lines 481, 493, 519).
JoinResume(st, t, ok) ==
    LET u == Head(t.todo)
        g == t.g
        rest == [t EXCEPT !.todo = Tail(@), !.ev = NoEvent]
        isMember == ok /\ st.member[<<g, u>>]
    IN
    CASE t.pc = "joinFetch" ->
            [st |-> IF ok THEN st ELSE report(st), t |-> JoinBansStart(st, t)]
      [] t.pc = "joinBan" ->
            IF ok THEN [st |-> JoinBan(st, g, u),
                        t |-> [t EXCEPT !.pc = "joinBanFetch"]]
            ELSE [st |-> Called(st, g), t |-> JoinBans(st, rest)]
      [] t.pc = "joinBanFetch" ->
            [st |-> report(st), t |-> JoinBans(st, rest)]
      [] t.pc = "joinTmoFetch" ->
            \* "syncData.timeouts[userId]! - Date.now()": no expiry check;
            \* a deleted entry gives NaN, which member.timeout rejects
            IF isMember /\ st.timeouts[u] # None
            THEN [st |-> st,
                  t |-> [t EXCEPT !.pc = "joinTmo",
                            !.ev.newT = st.timeouts[u],
                            !.obs.stale =
                                IF st.timeouts[u] > st.now THEN @
                                ELSE @ \cup {u}]]
            ELSE [st |-> st, t |-> JoinTimeouts(st, rest)]
      [] t.pc = "joinTmo" ->
            [st |-> IF ok
                    THEN report(ApiSetTimeout(Called(st, g), g, u, FALSE,
                                              t.ev.newT - st.now))
                    ELSE Called(st, g),
             t |-> JoinTimeouts(st, rest)]
      [] t.pc = "joinMuteFetch" ->
            IF ~isMember THEN [st |-> st, t |-> JoinMutes(st, rest)]
            ELSE [st |-> st,
                  t |-> [t EXCEPT !.pc = IF st.grole[g] THEN "joinAdd"
                                         ELSE "joinCreate"]]
      [] t.pc = "joinCreate" ->
            IF ok THEN [st |-> report(ApiCreateRole(Called(st, g), g)),
                        t |-> [t EXCEPT !.pc = "joinAdd"]]
            ELSE [st |-> Called(st, g), t |-> JoinMutes(st, rest)]
      [] OTHER ->
            \* member.roles.add, whatever the member carries
            [st |-> IF ok THEN report(ApiAddRole(Called(st, g), g, u))
                    ELSE Called(st, g),
             t |-> JoinMutes(st, rest)]

\* An awaited call of a guildCreate handler returns or rejects.
JoinStep ==
    \E k \in DOMAIN tasks : \E ok \in BOOLEAN :
        /\ tasks[k].kind = "join"
        /\ ok \/ mods + fails + passes < budget
        /\ LET r == JoinResume(S, tasks[k], ok) IN
            /\ Len(tasks) + Len(r.st.queue) <= MaxPending
            /\ Commit(r.st)
            /\ tasks' = Put(tasks, k, r.t)
            /\ calls' = r.st.calls
        /\ fails' = IF ok THEN fails ELSE fails + 1
        /\ UNCHANGED <<budget, env, mods, passes>>

\* ------------------------------------------------------- moderators, the clock
EnvLeft == ~Halted /\ mods + fails + passes < budget

\* The state a moderator acts on: the action counts, its event is theirs.
M == [S EXCEPT !.actor = "mod", !.mods = mods + 1]

Moderate(st) ==
    /\ EnvLeft
    /\ Len(tasks) + Len(st.queue) <= MaxPending
    /\ mods' = mods + 1
    /\ Commit(st)
    /\ UNCHANGED <<budget, env, tasks, calls, fails, passes>>

ModBan == \E p \in Pairs : ~banned[p] /\ Moderate(ApiAddBan(M, p[1], p[2]))

ModUnban == \E p \in Pairs : banned[p] /\ Moderate(ApiRemoveBan(M, p[1], p[2]))

ModTimeout ==
    \E p \in Pairs : \E e \in Times \cup {None} :
        /\ member[p]
        /\ e # tmo[p]
        /\ e = None \/ e > now
        /\ Moderate(MemberUpdated(M, p[1], p[2], e, role[p]))

ModRole ==
    \E p \in Pairs :
        /\ member[p]
        /\ Moderate(MemberUpdated([M EXCEPT !.grole[p[1]] = TRUE],
                                  p[1], p[2], tmo[p], ~role[p]))

Tick ==
    /\ now < MaxTime
    /\ now' = now + 1
    /\ UNCHANGED <<budget, env, banned, member, tmo, role, grole, bans, timeouts,
                   mutedRoles, processingUsers, queue, tasks, calls, mods,
                   fails, passes, disk, unhandled>>

\* A rejection that nothing handles terminates the process (the default of
\* the Node.js 22 of the Dockerfile): every handler in flight and every
\* notification not yet dispatched is lost.  The rejection arrives when the
\* rejected call answers, at any time after the call.
Crash ==
    /\ unhandled # {}
    /\ ~Halted
    /\ unhandled' = unhandled \cup {"exit"}
    /\ tasks' = <<>>
    /\ queue' = <<>>
    /\ UNCHANGED <<budget, env, banned, member, tmo, role, grole, bans, timeouts,
                   mutedRoles, processingUsers, now, calls, mods, fails,
                   passes, disk>>

\* A replicator is called twice in succession with the same arguments.
Twice(op) ==
    \E u \in Users : \E b \in BOOLEAN :
    \E e \in Times \cup {None} : \E o \in Guilds :
        /\ Idle
        /\ op = "ban" => e = None /\ o = 1
        /\ op = "tmo" => ~b /\ o = 1
        /\ op = "mute" => e = None
        /\ LET r == Invoke(S, Event(op, o, u, None, e, FALSE, b)) IN
            /\ r.sw # NoSweep
            /\ Commit(r.st)
            /\ tasks' = <<Task("twice", "first", 0, <<>>,
                               Event(op, o, u, None, e, FALSE, b), r.sw)>>
        /\ calls' = [g \in Guilds |-> 0]
        /\ UNCHANGED <<budget, env, mods, fails, passes>>

TwiceBans == Twice("ban")

TwiceTimeouts == Twice("tmo")

TwiceMutedRole == Twice("mute")

\* ------------------------------------------------------------ specifications
Quiet ==
    /\ processingUsers = {}
    /\ queue = <<>>
    /\ tasks = <<>>
    /\ now = 1
    /\ calls = [g \in Guilds |-> 0]
    /\ mods = 0
    /\ fails = 0
    /\ passes = 0
    /\ budget = MaxEnv
    /\ disk = Snapshot(bans, timeouts, mutedRoles)
    /\ env = Sound
    /\ unhandled = {}

\* The process has just started with no data file and untouched guilds.
Init ==
    /\ banned = [p \in Pairs |-> FALSE]
    /\ member = [p \in Pairs |-> TRUE]
    /\ tmo = [p \in Pairs |-> None]
    /\ role = [p \in Pairs |-> FALSE]
    /\ grole = [g \in Guilds |-> FALSE]
    /\ bans = [u \in Users |-> FALSE]
    /\ timeouts = [u \in Users |-> None]
    /\ mutedRoles = [u \in Users |-> NoRec]
    /\ Quiet

Engine ==
    \/ Deliver
    \/ SweepAwait
    \/ SweepDone
    \/ FetchBans
    \/ FetchMembers
    \/ StartPeriodic

Next ==
    \/ Engine
    \/ ModBan
    \/ ModUnban
    \/ ModTimeout
    \/ ModRole
    \/ Tick

Spec == Init /\ [][Next]_vars

\* The bot starts with the snapshot of an earlier run (loadData), on guilds
\* that were moderated while it was down: any ban lists, any ban flags.
InitBan ==
    /\ banned \in [Pairs -> BOOLEAN]
    /\ member = [p \in Pairs |-> ~banned[p]]
    /\ tmo = [p \in Pairs |-> None]
    /\ role = [p \in Pairs |-> FALSE]
    /\ grole = [g \in Guilds |-> FALSE]
    /\ bans \in [Users -> BOOLEAN]
    /\ timeouts = [u \in Users |-> None]
    /\ mutedRoles = [u \in Users |-> NoRec]
    /\ Quiet

NextBan == Engine \/ ModBan \/ ModUnban

SpecBan == InitBan /\ [][NextBan]_vars

\* The session has become ready: the ready handler has loaded the snapshot of
\* an earlier run and awaits its first fetch, on guilds that were moderated
\* while the bot was down.
InitStart ==
    /\ banned \in [Pairs -> BOOLEAN]
    /\ member = [p \in Pairs |-> ~banned[p]]
    /\ tmo = [p \in Pairs |-> None]
    /\ role = [p \in Pairs |-> FALSE]
    /\ grole = [g \in Guilds |-> FALSE]
    /\ bans \in [Users -> BOOLEAN]
    /\ timeouts = [u \in Users |-> None]
    /\ mutedRoles = [u \in Users |-> NoRec]
    /\ processingUsers = {}
    /\ queue = <<>>
    /\ tasks = <<ReadyStart>>
    /\ now = 1
    /\ calls = [g \in Guilds |-> 0]
    /\ mods = 0
    /\ fails = 0
    /\ passes = 0
    /\ budget = MaxEnv
    /\ disk = Snapshot(bans, timeouts, mutedRoles)
    /\ env = Sound
    /\ unhandled = {}

NextStart == NextBan \/ ReadyFetch

SpecStart == InitStart /\ [][NextStart]_vars

\* The bot running with every guild in agreement with the ban flags; one
\* moderator action, one failed call and one timer firing can follow.
InitHeal ==
    /\ bans \in [Users -> BOOLEAN]
    /\ banned = [p \in Pairs |-> bans[p[2]]]
    /\ member = [p \in Pairs |-> ~banned[p]]
    /\ tmo = [p \in Pairs |-> None]
    /\ role = [p \in Pairs |-> FALSE]
    /\ grole = [g \in Guilds |-> FALSE]
    /\ timeouts = [u \in Users |-> None]
    /\ mutedRoles = [u \in Users |-> NoRec]
    /\ processingUsers = {}
    /\ queue = <<>>
    /\ tasks = <<>>
    /\ now = 1
    /\ calls = [g \in Guilds |-> 0]
    /\ mods = 0
    /\ fails = 0
    /\ passes = 0
    /\ budget = MaxEnv + 1
    /\ disk = Snapshot(bans, timeouts, mutedRoles)
    /\ env = Sound
    /\ unhandled = {}

SpecHeal == InitHeal /\ [][NextBan]_vars

\* ... any timeouts on the guilds and in the snapshot.
InitTimeout ==
    /\ banned = [p \in Pairs |-> FALSE]
    /\ member \in [Pairs -> BOOLEAN]
    /\ tmo \in [Pairs -> Times \cup {None}]
    /\ \A p \in Pairs : ~member[p] => tmo[p] = None
    /\ role = [p \in Pairs |-> FALSE]
    /\ grole = [g \in Guilds |-> FALSE]
    /\ bans = [u \in Users |-> FALSE]
    /\ timeouts \in [Users -> Times \cup {None}]
    /\ mutedRoles = [u \in Users |-> NoRec]
    /\ Quiet

NextTimeout == Engine \/ ModTimeout \/ Tick

SpecTimeout == InitTimeout /\ [][NextTimeout]_vars

\* ... any Muted-role memberships on the guilds, any record in the snapshot.
InitMute ==
    /\ banned = [p \in Pairs |-> FALSE]
    /\ member \in [Pairs -> BOOLEAN]
    /\ tmo = [p \in Pairs |-> None]
    /\ role \in [Pairs -> BOOLEAN]
    /\ \A p \in Pairs : role[p] => member[p]
    /\ grole \in [Guilds -> BOOLEAN]
    /\ \A p \in Pairs : role[p] => grole[p[1]]
    \* the role of a guild is only looked up for a member of it
    /\ \A g \in Guilds : grole[g] => \E u \in Users : member[<<g, u>>]
    /\ bans = [u \in Users |-> FALSE]
    /\ timeouts = [u \in Users |-> None]
    /\ mutedRoles \in [Users -> {NoRec} \cup
                         [muted : BOOLEAN, originGuildId : Guilds]]
    /\ Quiet

NextMute == Engine \/ ModRole

SpecMute == InitMute /\ [][NextMute]_vars

\* The same start, with one more environment event: two moderator actions
\* and a timer firing can follow one another.
InitMuteLong ==
    /\ banned = [p \in Pairs |-> FALSE]
    /\ member \in [Pairs -> BOOLEAN]
    /\ tmo = [p \in Pairs |-> None]
    /\ role \in [Pairs -> BOOLEAN]
    /\ \A p \in Pairs : role[p] => member[p]
    /\ grole \in [Guilds -> BOOLEAN]
    /\ \A p \in Pairs : role[p] => grole[p[1]]
    /\ \A g \in Guilds : grole[g] => \E u \in Users : member[<<g, u>>]
    /\ bans = [u \in Users |-> FALSE]
    /\ timeouts = [u \in Users |-> None]
    /\ mutedRoles \in [Users -> {NoRec} \cup
                         [muted : BOOLEAN, originGuildId : Guilds]]
    /\ processingUsers = {}
    /\ queue = <<>>
    /\ tasks = <<>>
    /\ now = 1
    /\ calls = [g \in Guilds |-> 0]
    /\ mods = 0
    /\ fails = 0
    /\ passes = 0
    /\ budget = MaxEnv + 1
    /\ disk = Snapshot(bans, timeouts, mutedRoles)
    /\ env = Sound
    /\ unhandled = {}

SpecMuteLong == InitMuteLong /\ [][NextMute]_vars

\* The process has just started on untouched guilds; the data file may be one
\* that cannot be written (a read-only volume, a full disk).
InitDisk ==
    /\ banned = [p \in Pairs |-> FALSE]
    /\ member = [p \in Pairs |-> TRUE]
    /\ tmo = [p \in Pairs |-> None]
    /\ role = [p \in Pairs |-> FALSE]
    /\ grole = [g \in Guilds |-> FALSE]
    /\ bans = [u \in Users |-> FALSE]
    /\ timeouts = [u \in Users |-> None]
    /\ mutedRoles = [u \in Users |-> NoRec]
    /\ processingUsers = {}
    /\ queue = <<>>
    /\ tasks = <<>>
    /\ now = 1
    /\ calls = [g \in Guilds |-> 0]
    /\ mods = 0
    /\ fails = 0
    /\ passes = 0
    /\ budget = MaxEnv
    /\ disk = Snapshot(bans, timeouts, mutedRoles)
    /\ env \in [writable : BOOLEAN, channel : {"off"}]
    /\ unhandled = {}

SpecDisk == InitDisk /\ [][Next]_vars

\* The process has just started on untouched guilds; an updates channel may be
\* configured, and may be one the bot cannot post to.
InitReport ==
    /\ banned = [p \in Pairs |-> FALSE]
    /\ member = [p \in Pairs |-> TRUE]
    /\ tmo = [p \in Pairs |-> None]
    /\ role = [p \in Pairs |-> FALSE]
    /\ grole = [g \in Guilds |-> FALSE]
    /\ bans = [u \in Users |-> FALSE]
    /\ timeouts = [u \in Users |-> None]
    /\ mutedRoles = [u \in Users |-> NoRec]
    /\ processingUsers = {}
    /\ queue = <<>>
    /\ tasks = <<>>
    /\ now = 1
    /\ calls = [g \in Guilds |-> 0]
    /\ mods = 0
    /\ fails = 0
    /\ passes = 0
    /\ budget = MaxEnv
    /\ disk = Snapshot(bans, timeouts, mutedRoles)
    /\ env \in [writable : {TRUE},
                channel : {"off", "ok", "missing", "rejects"}]
    /\ unhandled = {}

NextReport == Next \/ Crash

SpecReport == InitReport /\ [][NextReport]_vars

\* The bot, running on guilds that agree with its snapshot, has been added to
\* guild j, which has any bans, members, timeouts and Muted-role memberships
\* of its own; the guildCreate handler awaits its first fetch.
InitJoin ==
    \E j \in Guilds :
        /\ bans \in [Users -> BOOLEAN]
        /\ timeouts \in [Users -> Times \cup {None}]
        /\ mutedRoles \in [Users -> {NoRec} \cup
                             [muted : BOOLEAN, originGuildId : Guilds \ {j}]]
        /\ banned \in [Pairs -> BOOLEAN]
        /\ member \in [Pairs -> BOOLEAN]
        /\ tmo \in [Pairs -> Times \cup {None}]
        /\ role \in [Pairs -> BOOLEAN]
        /\ grole \in [Guilds -> BOOLEAN]
        /\ \A p \in Pairs :
                /\ banned[p] => ~member[p]
                /\ ~member[p] => tmo[p] = None /\ ~role[p]
                /\ role[p] => grole[p[1]]
                /\ p[1] # j =>
                        /\ banned[p] = bans[p[2]]
                        /\ member[p] = ~banned[p]
                        /\ member[p] => /\ tmo[p] = timeouts[p[2]]
                                        /\ role[p] = mutedRoles[p[2]].muted
        /\ \A g \in Guilds \ {j} :
                grole[g] = \E u \in Users : role[<<g, u>>]
        /\ processingUsers = {}
        /\ queue = <<>>
        /\ tasks = <<JoinStart(j)>>
        /\ now = 1
        /\ calls = [g \in Guilds |-> 0]
        /\ mods = 0
        /\ fails = 0
        /\ passes = 0
        /\ budget = MaxEnv
        /\ disk = Snapshot(bans, timeouts, mutedRoles)
        /\ env = Sound
        /\ unhandled = {}

NextJoin == JoinStep \/ Deliver \/ SweepAwait \/ SweepDone \/ Tick

SpecJoin == InitJoin /\ [][NextJoin]_vars

\* The event loop runs every pending callback and every awaited call returns.
Fairness ==
    /\ WF_vars(Deliver) /\ WF_vars(SweepAwait) /\ WF_vars(SweepDone)
    /\ WF_vars(FetchBans) /\ WF_vars(FetchMembers)

FairMute == SpecMute /\ Fairness

\* One dimension, timeouts, with no reconciliation pass: the handlers of the
\* member-updated notifications and their syncTimeouts loops, on a clean
\* start, under the fair event loop.
NextChain == Deliver \/ SweepAwait \/ SweepDone \/ ModTimeout \/ Tick

FairChain ==
    /\ Init /\ [][NextChain]_vars
    /\ WF_vars(Deliver) /\ WF_vars(SweepAwait) /\ WF_vars(SweepDone)

\* Two successive invocations of a replicator, on any drifted guilds; the
\* notifications of its calls are dispatched as they come.
NextTwiceBans == TwiceBans \/ Deliver \/ SweepAwait \/ SweepDone

SpecTwiceBans == InitBan /\ [][NextTwiceBans]_vars

NextTwiceTimeouts ==
    TwiceTimeouts \/ Deliver \/ SweepAwait \/ SweepDone \/ Tick

SpecTwiceTimeouts == InitTimeout /\ [][NextTwiceTimeouts]_vars

NextTwiceMutedRole == TwiceMutedRole \/ Deliver \/ SweepAwait \/ SweepDone

SpecTwiceMutedRole == InitMute /\ [][NextTwiceMutedRole]_vars

\* ------------------------------------------------------------------- claims
InFlight == {tasks[k] : k \in DOMAIN tasks}

BannedEverywhere(u) == \A g \in Guilds : banned[<<g, u>>]

BannedNowhere(u) == \A g \in Guilds : ~banned[<<g, u>>]

\* The syncBans(u, b) invocations whose loop is over with no failed call
\* and no moderator action since the observation that triggered them.
BanSweepOver(b) ==
    {t \in InFlight : /\ t.sw.op = "ban" /\ t.sw.b = b
                      /\ t.sw.i = NGuilds + 1
                      /\ t.sw.clean /\ t.sw.m0 = mods}

\* C2: when syncBans(U, true), triggered by a ban-added event or by a
\* reconciliation scan, completes with no failed call, bans[U] is true and U
\* is banned on every guild.
C2_BanPropagation ==
    \A t \in BanSweepOver(TRUE) : bans[t.sw.u] /\ BannedEverywhere(t.sw.u)

\* C3: when syncBans(U, false), triggered by a ban-removed event, completes
\* with no further local mutation, bans[U] is false and U is banned nowhere.
C3_UnbanPropagation ==
    \A t \in BanSweepOver(FALSE) : ~bans[t.sw.u] /\ BannedNowhere(t.sw.u)

\* Every guild agrees with syncData, for every user: the ban list, the live
\* timeout of a member, the Muted role of a member with a record.
Converged ==
    \A p \in Pairs :
        /\ banned[p] = bans[p[2]]
        /\ member[p] => NormalizeTimeout(now, tmo[p]) = timeouts[p[2]]
        /\ member[p] /\ HasRec(S, p[2]) => role[p] = mutedRoles[p[2]].muted

\* C1: once a full periodicSync pass has completed, with no moderator action
\* since the bot started on the drifted guilds and no failed call, every
\* guild agrees with syncData.
C1_Convergence ==
    passes >= 1 /\ Idle /\ mods = 0 /\ fails = 0 => Converged

\* The syncMutedRole(u, m, S) invocations that a discovery (no record for u)
\* started and whose loop is over.
DiscoveryOver ==
    {t \in InFlight : /\ t.sw.op = "mute" /\ t.sw.fresh
                      /\ t.sw.i = NGuilds + 1}

RoleEverywhere(u, m) == \A g \in Guilds : member[<<g, u>>] => role[<<g, u>>] = m

Discovered(sw) ==
    /\ mutedRoles[sw.u] = [muted |-> sw.b, originGuildId |-> sw.origin]
    /\ RoleEverywhere(sw.u, sw.b)

\* C4 as stated: when the sweep that follows a discovery on S completes, S is
\* the recorded origin with the observed value and every guild where U is a
\* member carries that value.
C4_AsStated == \A t \in DiscoveryOver : Discovered(t.sw)

\* C4, amended: ... if no call of the sweep failed and no moderator acted
\* between the observation and the completion.
C4_MuteDiscovery ==
    \A t \in DiscoveryOver : t.sw.clean /\ t.sw.m0 = mods => Discovered(t.sw)

C4_Witness ==
    \E t \in DiscoveryOver :
        /\ t.sw.clean /\ t.sw.m0 = mods
        /\ \E g \in Guilds : g # t.sw.origin /\ role[<<g, t.sw.u>>]

\* The oldest pending notification is dispatched in this step.
Delivered == queue # <<>> /\ queue' = Tail(queue)

\* A Muted-role change made by who, on a guild that is not the recorded origin.
NonOriginChange(e, who) ==
    /\ e.type = "memberUpdate" /\ e.src = who /\ e.had # e.has
    /\ HasRec(S, e.u) /\ mutedRoles[e.u].originGuildId # e.g

\* The handler of e has set out to put e.g's role back to the recorded value.
RevertStarted(e) ==
    /\ Len(tasks') = Len(tasks) + 1
    /\ LET sw == tasks'[Len(tasks')].sw IN
        /\ sw.op = "revert" /\ sw.i = e.g /\ sw.u = e.u
        /\ sw.b = mutedRoles[e.u].muted

\* The awaited call of the revert in tasks[k] returns in this step.
RevertReturns(k) ==
    /\ k \in DOMAIN tasks /\ k \in DOMAIN tasks'
    /\ tasks' = [tasks EXCEPT ![k].sw = tasks'[k].sw]
    /\ tasks[k].sw.op = "revert"
    /\ tasks[k].sw.i <= NGuilds /\ tasks'[k].sw.i > NGuilds

\* C5 as stated: the handling of a moderator's change on a non-origin guild
\* leaves the record alone and puts the guild's role back to the recorded
\* value (it is already there, or a revert is started that sets it).
C5_AsStated ==
    [][/\ Delivered /\ NonOriginChange(Head(queue), "mod") =>
            /\ mutedRoles' = mutedRoles
            /\ \/ Head(queue).has = mutedRoles[Head(queue).u].muted
               \/ RevertStarted(Head(queue))
       /\ \A k \in 1..MaxPending : RevertReturns(k) =>
            /\ mutedRoles' = mutedRoles
            /\ role'[<<tasks[k].sw.i, tasks[k].sw.u>>] = tasks[k].sw.b]_vars

\* C5, amended: ... if the user is not in processingUsers when the
\* notification is dispatched and the revert's call does not fail.
C5_OriginAuthority ==
    [][/\ /\ Delivered /\ NonOriginChange(Head(queue), "mod")
          /\ Head(queue).u \notin processingUsers
          => /\ mutedRoles' = mutedRoles
             /\ \/ Head(queue).has = mutedRoles[Head(queue).u].muted
                \/ RevertStarted(Head(queue))
       /\ \A k \in 1..MaxPending : RevertReturns(k) /\ tasks'[k].sw.clean =>
            /\ mutedRoles' = mutedRoles
            /\ role'[<<tasks[k].sw.i, tasks[k].sw.u>>] = tasks[k].sw.b]_vars

\* A moderator's revert has returned: the role is back at the recorded value.
C5_Witness ==
    \E t \in InFlight :
        /\ t.sw.op = "revert" /\ t.sw.i = NGuilds + 1 /\ t.sw.src = "mod"
        /\ role[<<t.g, t.sw.u>>] = mutedRoles[t.sw.u].muted
        /\ t.sw.has # mutedRoles[t.sw.u].muted

\* The notification of a role change the engine made itself is dispatched.
EchoDelivered ==
    Delivered /\ Head(queue).type = "memberUpdate" /\ Head(queue).src = "bot"

SecondOf(op) == {t \in InFlight : Counted(t) /\ t.sw.op = op}

NoCalls == calls = [g \in Guilds |-> 0]

\* C7: the second of two successive syncBans(U, b), none of whose calls
\* failed, issues no ban-create or ban-remove call.
C7_AsStated == \A t \in SecondOf("ban") : t.sw.clean => NoCalls

\* C8: the second of two successive syncTimeouts(U, e), none of whose calls
\* failed, issues no member.timeout call.
C8_AsStated == \A t \in SecondOf("tmo") : t.sw.clean => NoCalls

\* C9 as stated: the second of two successive syncMutedRole(U, m, O) issues
\* no role add, remove or create call.
C9_AsStated == \A t \in SecondOf("mute") : NoCalls

\* C9, amended: ... if no call of the first invocation failed.
C9_Idempotent == \A t \in SecondOf("mute") : t.sw.clean => NoCalls

\* The second invocation is over without a call, after a first one that
\* changed a role (its notification is still pending).
C9_Witness ==
    \E t \in SecondOf("mute") :
        /\ t.sw.i = NGuilds + 1 /\ t.sw.clean /\ NoCalls
        /\ \E k \in DOMAIN queue :
                queue[k].type = "memberUpdate" /\ queue[k].src = "bot"

\* An expiry at or before the current time read as 'none'.
Live(t) == NormalizeTimeout(now, t)

\* C10: an expired expiry behaves like an absent one, in the per-guild
\* comparison of every syncTimeouts in progress (the same call is issued or
\* not with the guild's expiry read as 'none') and in the old/new comparison
\* of every pending member-updated notification (the same sync is triggered
\* or not with its expiries read as 'none').
C10_AsStated ==
    /\ \A t \in InFlight :
            t.sw.op = "tmo" /\ t.sw.i \in Guilds /\ member[<<t.sw.i, t.sw.u>>]
            => (TimeoutDiffers(tmo[<<t.sw.i, t.sw.u>>], t.sw.e)
                    <=> TimeoutDiffers(Live(tmo[<<t.sw.i, t.sw.u>>]), t.sw.e))
    /\ \A k \in DOMAIN queue :
            queue[k].type = "memberUpdate"
            => (TimeoutChanged(queue[k])
                    <=> TimeoutChanged([queue[k] EXCEPT !.oldT = Live(@),
                                                        !.newT = Live(@)]))

\* The periodicSync invocation in tasks[k] returns in this step.
PassReturns(k) ==
    /\ k \in DOMAIN tasks
    /\ tasks[k].kind = "periodic"
    /\ tasks' = Remove(tasks, k)

\* No moderator has acted and no call has failed since the pass t was called.
Undisturbed(t) == t.obs.m0 = mods' /\ t.obs.f0 = fails'

NoTimeoutAnywhere(u) ==
    /\ timeouts[u] = None
    /\ \A g \in Guilds : member[<<g, u>>] => tmo[<<g, u>>] = None

GuardedDelivered == Delivered /\ Head(queue).u \in processingUsers

\* C12 as stated: a notification for a user held in processingUsers is
\* dropped by its handler: no replicator or revert is started, no call is
\* issued and no record changes.
C12_AsStated ==
    [][GuardedDelivered
        => /\ tasks' = tasks /\ calls' = calls
           /\ bans' = bans /\ timeouts' = timeouts
           /\ mutedRoles' = mutedRoles]_vars

\* An operation that takes the guard for u (syncMutedRole, the revert of the
\* event handler, the correction of periodicSync) is in flight.
MuteOpInFlight(u) ==
    \E t \in InFlight :
        t.sw.op \in {"mute", "revert", "correct"} /\ t.sw.u = u

\* C13 as stated: a user is in processingUsers only while a Muted-role
\* operation for that user is in flight.
C13_AsStated ==
    \A u \in Users : u \in processingUsers => MuteOpInFlight(u)

\* The awaited call of the replicator of task k returns or fails in this step.
ReplicatorStep(k) ==
    /\ k \in DOMAIN tasks
    /\ tasks[k].sw.op \in {"ban", "tmo", "mute"}
    /\ tasks[k].sw.i \in Guilds
    /\ DOMAIN tasks' = DOMAIN tasks
    /\ tasks'[k].sw # tasks[k].sw
    /\ \A j \in DOMAIN tasks : j # k => tasks'[j] = tasks[j]

\* The guild of the step carries the target of the sweep afterwards.
TargetApplied(sw) ==
    LET p == <<sw.i, sw.u>> IN
    CASE sw.op = "ban" -> banned'[p] = sw.b
      [] sw.op = "tmo" -> member[p] => tmo'[p] = sw.e
      [] OTHER -> member[p] /\ grole'[sw.i] => role'[p] = sw.b

\* C14: a failed call of syncBans, syncTimeouts or syncMutedRole changes no
\* record and no guild, and the loop goes on with the next guild without
\* raising; a call that succeeds after an earlier one has failed still brings
\* its guild to the target.
C14_FailureIsolation ==
    [][\A k \in 1..MaxPending :
        ReplicatorStep(k) =>
            LET sw == tasks[k].sw IN
            /\ ~Threw(tasks'[k].sw)
            /\ fails' # fails =>
                    /\ tasks'[k].sw.i = NextGuild(sw.op, sw.origin, sw.i + 1)
                    /\ bans' = bans /\ timeouts' = timeouts
                    /\ mutedRoles' = mutedRoles
                    /\ banned' = banned /\ tmo' = tmo /\ role' = role
            /\ fails' = fails /\ ~sw.clean /\ tasks'[k].sw.i # sw.i =>
                    TargetApplied(sw)]_vars

\* After one moderator's ban on guild 1, the ban call of syncBans has failed
\* on a guild and the loop has gone on to ban the user on the last guild.
C14_Witness ==
    \E t \in InFlight :
        /\ t.sw.op = "ban" /\ t.sw.b /\ ~t.sw.clean
        /\ t.sw.i = NGuilds + 1
        /\ t.sw.origin = 1 /\ mods = 1
        /\ banned[<<NGuilds, t.sw.u>>]

\* Every guild shows the ban flag of every user.
BansAgree == \A p \in Pairs : banned[p] = bans[p[2]]

\* C15 as stated (bans): a pass called with nothing pending after a call of
\* a sweep has failed, and returning with no moderator action and no failed
\* call since and nothing left in flight, leaves the ban flags as they were
\* and every guild in agreement with them.
C15_AsStated ==
    [][\A k \in 1..MaxPending :
        /\ PassReturns(k) /\ Undisturbed(tasks[k]) /\ Idle'
        /\ tasks[k].obs.quiet /\ tasks[k].obs.f0 > 0
        => bans' = tasks[k].obs.bans /\ BansAgree']_vars

\* The record of u carries the Muted-role membership its origin guild shows,
\* and so does every guild where u is a member.
FollowsOrigin(u) ==
    LET o == mutedRoles[u].originGuildId IN
    HasRec(S, u) /\ member[<<o, u>>]
    => /\ mutedRoles[u].muted = role[<<o, u>>]
       /\ \A g \in Guilds :
            member[<<g, u>>] => role[<<g, u>>] = mutedRoles[u].muted

\* C16 as stated: a pass called with nothing pending, and returning with no
\* moderator action and no failed call since and nothing left in flight,
\* leaves every record with the membership of its origin guild and every
\* other guild in agreement with the record.
C16_AsStated ==
    [][\A k \in 1..MaxPending :
        /\ PassReturns(k) /\ Undisturbed(tasks[k]) /\ Idle'
        /\ tasks[k].obs.quiet
        => \A u \in Users : FollowsOrigin(u)']_vars

\* The awaited call of the correction of task k returns or fails in this step.
CorrectionStep(k) ==
    /\ k \in DOMAIN tasks
    /\ tasks[k].sw.op = "correct"
    /\ tasks[k].sw.i \in Guilds
    /\ DOMAIN tasks' = DOMAIN tasks
    /\ tasks'[k].sw # tasks[k].sw
    /\ \A j \in DOMAIN tasks : j # k => tasks'[j] = tasks[j]

\* A call of a correction changes no record and no other guild, and its last
\* call, when it succeeds, leaves the guild with the recorded value.
CorrectionFrame ==
    [][\A k \in 1..MaxPending :
        CorrectionStep(k) =>
            LET sw == tasks[k].sw IN
            /\ mutedRoles' = mutedRoles
            /\ \A p \in Pairs : p[1] # sw.i => role'[p] = role[p]
            /\ \A g \in Guilds : g # sw.i => grole'[g] = grole[g]
            /\ fails' = fails /\ tasks'[k].sw.i = NGuilds + 1 =>
                    role'[<<sw.i, sw.u>>] = mutedRoles[sw.u].muted]_vars

\* C17 as stated (the guard): the user of a correction suspended at an await
\* is in processingUsers.  (The rest of the claim is CorrectionFrame.)
C17_AsStated ==
    \A t \in InFlight :
        t.sw.op = "correct" /\ t.sw.i \in Guilds => t.sw.u \in processingUsers

\* The fetch awaited by task k returns or fails in this step.
FetchStep(k) ==
    /\ k \in DOMAIN tasks
    /\ tasks[k].pc \in {"fetchBans", "fetchMembers"}
    /\ \/ tasks' = Remove(tasks, k)
       \/ /\ DOMAIN tasks' = DOMAIN tasks
          /\ tasks'[k] # tasks[k]
          /\ \A j \in DOMAIN tasks : j # k => tasks'[j] = tasks[j]

\* The pass of task t has gone on to the guild, or the phase, after t.g.
MovedOn(t, k) ==
    IF t.pc = "fetchMembers" /\ t.g = NGuilds
    THEN tasks' = Remove(tasks, k)
    ELSE /\ k \in DOMAIN tasks'
         /\ tasks'[k].kind = t.kind /\ tasks'[k].sw = NoSweep
         /\ tasks'[k].pc = IF t.g < NGuilds THEN t.pc ELSE "fetchMembers"
         /\ tasks'[k].g = IF t.g < NGuilds THEN t.g + 1 ELSE 1
         /\ tasks'[k].obs.skipped = t.obs.skipped \cup {<<t.pc, t.g>>}

\* The scan of guild t.g has taken up what it found: a ban without a flag,
\* or a live expiry that differs from the recorded one.
Reconciled(t) ==
    IF t.pc = "fetchBans"
    THEN \A u \in Users : banned[<<t.g, u>>] /\ ~bans[u] => bans'[u]
    ELSE \A u \in Users :
            member[<<t.g, u>>] /\ timeouts[u] # LiveTimeout(S, t.g, u)
            => timeouts'[u] = LiveTimeout(S, t.g, u)

\* C18: a failed fetch of a pass changes no record and no guild and the pass
\* goes on with the next guild, or the next phase, or returns after the last
\* guild, without raising; a fetch that succeeds after an earlier one has
\* failed is still followed by the scan of its guild; and every pass starts
\* with the ban fetch of the first guild, whatever failed before.
C18_FetchIsolation ==
    [][/\ \A k \in 1..MaxPending :
            FetchStep(k) =>
                LET t == tasks[k] IN
                /\ fails' # fails =>
                        /\ MovedOn(t, k)
                        /\ bans' = bans /\ timeouts' = timeouts
                        /\ mutedRoles' = mutedRoles
                        /\ processingUsers' = processingUsers
                        /\ banned' = banned /\ tmo' = tmo /\ role' = role
                /\ fails' = fails /\ t.obs.skipped # {} => Reconciled(t)
       /\ passes' # passes =>
            /\ tasks' = Append(tasks, tasks'[Len(tasks')])
            /\ LET t == tasks'[Len(tasks')] IN
                /\ t.kind = "periodic" /\ t.pc = "fetchBans" /\ t.g = 1
                /\ t.obs.skipped = {}]_vars

\* The ban fetch of guild 1 has failed, and the same pass has gone on to guild
\* 2 and propagates a ban it found there.
C18_Witness ==
    \E t \in InFlight :
        /\ t.kind = "periodic" /\ t.pc = "banSweep" /\ t.g = 2
        /\ <<"fetchBans", 1>> \in t.obs.skipped

\* The ready handler has not yet finished its fetches and its initial pass.
StartingUp ==
    \E t \in InFlight : t.kind = "ready" \/ (t.kind = "periodic" /\ t.obs.initial)

\* C19 as stated: while the ready handler is fetching or its initial pass is
\* running, no replicator invoked by an event handler and no pass called by
\* the timer is in flight.
C19_AsStated ==
    StartingUp =>
        \A t \in InFlight :
            /\ t.kind # "event"
            /\ t.kind = "periodic" => t.obs.initial

\* The notifications whose Muted-role part is evaluated in this step: the one
\* dispatched, and the one of a handler resuming after its syncTimeouts.
RoleEventsHandled ==
    {e \in {Head(queue)} : Delivered}
    \cup {tasks[k].ev : k \in {j \in DOMAIN tasks :
                /\ tasks[j].pc = "timeoutSweep" /\ tasks[j].sw.i > NGuilds
                /\ tasks' = Remove(tasks, j) \/ tasks'[j] # tasks[j]}}

\* The handler of a Muted-role change of u on its origin guild runs in this
\* step and the record takes the value it notifies.
OriginChangeHandled(u) ==
    \E e \in RoleEventsHandled :
        /\ e.type = "memberUpdate" /\ e.u = u /\ e.had # e.has
        /\ e.g = mutedRoles[u].originGuildId
        /\ mutedRoles'[u].muted = e.has

\* C20: a record, once it exists, stays and keeps its originGuildId, and its
\* muted value changes only in the step that handles a Muted-role change
\* notified by the origin guild.
C20_OriginStable ==
    [][\A u \in Users :
        HasRec(S, u) =>
            /\ mutedRoles'[u] # NoRec
            /\ mutedRoles'[u].originGuildId = mutedRoles[u].originGuildId
            /\ mutedRoles'[u].muted # mutedRoles[u].muted
                    => OriginChangeHandled(u)]_vars

\* The record of u existed with another value when a moderator's change on
\* its origin guild was handled, and carries the new value and the same
\* origin while the sweep runs; another guild's notification for u is pending.
C20_Witness ==
    \E t \in InFlight :
        /\ t.sw.op = "mute" /\ ~t.sw.fresh /\ t.sw.src = "mod"
        /\ mutedRoles[t.sw.u] =
                [muted |-> t.sw.b, originGuildId |-> t.sw.origin]
        /\ \E i \in DOMAIN queue :
                /\ queue[i].u = t.sw.u /\ queue[i].g # t.sw.origin
                /\ queue[i].src = "mod"

\* ------------------------------------------------------------ C21 .. C30
\* The file holds what syncData holds.
Durable == disk = Snapshot(bans, timeouts, mutedRoles)

\* C21: a failed saveData is never caught and passed over: whenever the file
\* differs from syncData, the failure has surfaced as the rejection of the
\* handler that called the replicator.
C21_AsStated == ~Durable => "save" \in unhandled

\* The operation has added its user to processingUsers and has not reached
\* its processingUsers.delete: a syncMutedRole or a correction from its start,
\* a revert once its role exists (line 316).
HoldsGuard(sw) ==
    /\ sw.i <= NGuilds + 1
    /\ \/ sw.op \in {"mute", "correct"}
       \/ sw.op = "revert" /\ sw.stage = "apply"

Holders(u) == {k \in DOMAIN tasks : HoldsGuard(tasks[k].sw) /\ tasks[k].sw.u = u}

\* C22: at most one Muted-role operation of a user is between its
\* processingUsers.add and its processingUsers.delete, and the user is in
\* processingUsers while it is.
C22_AsStated ==
    \A u \in Users :
        /\ Cardinality(Holders(u)) <= 1
        /\ Holders(u) # {} => u \in processingUsers

\* A syncBans called by an event handler is suspended in its loop for u.
EventBanSuspended(u) ==
    \E t \in InFlight :
        /\ t.kind = "event" /\ t.sw.op = "ban" /\ t.sw.u = u
        /\ t.sw.i \in Guilds

\* In this step a pass calls syncBans for u (lines 345-353).
PassWritesBan(u) ==
    \E k \in DOMAIN tasks :
        /\ tasks[k].kind = "periodic" /\ tasks[k].pc # "banSweep"
        /\ k \in DOMAIN tasks'
        /\ tasks'[k].pc = "banSweep" /\ tasks'[k].sw.u = u

\* C23: while an event-triggered syncBans of u is suspended between two of
\* its calls, no pass writes the ban flag of u.
C23_AsStated ==
    [][\A u \in Users :
        EventBanSuspended(u) /\ PassWritesBan(u) => bans'[u] = bans[u]]_vars

\* The guildCreate handler, the first handler in flight, runs in this step.
JoinActs ==
    /\ tasks # <<>> /\ tasks[1].kind = "join"
    /\ tasks' = <<>> \/ tasks'[1] # tasks[1]

\* Guild g is as it was: its bans, members, timeouts, roles, and the calls
\* issued to it.
GuildUntouched(g) ==
    /\ \A u \in Users :
            /\ banned'[<<g, u>>] = banned[<<g, u>>]
            /\ member'[<<g, u>>] = member[<<g, u>>]
            /\ tmo'[<<g, u>>] = tmo[<<g, u>>]
            /\ role'[<<g, u>>] = role[<<g, u>>]
    /\ grole'[g] = grole[g]
    /\ calls'[g] = calls[g]

\* C24: a step of the guildCreate handler issues calls to the joined guild
\* only and changes neither syncData nor processingUsers.
C24_JoinFrame ==
    [][JoinActs =>
        /\ \A g \in Guilds \ {tasks[1].g} : GuildUntouched(g)
        /\ bans' = bans /\ timeouts' = timeouts /\ mutedRoles' = mutedRoles
        /\ processingUsers' = processingUsers]_vars

\* No call having failed, the handler has applied the recorded timeout to a
\* member of the joined guild (the notification is pending), has created the
\* Muted role there and awaits its roles.add.
C24_Witness ==
    /\ tasks # <<>> /\ tasks[1].kind = "join" /\ tasks[1].pc = "joinAdd"
    /\ fails = 0
    /\ calls[tasks[1].g] = 2
    /\ timeouts[Head(tasks[1].todo)] # None
    /\ tmo[<<tasks[1].g, Head(tasks[1].todo)>>] = timeouts[Head(tasks[1].todo)]
    /\ \E i \in DOMAIN queue :
            queue[i].type = "memberUpdate" /\ queue[i].g = tasks[1].g

\* The guildCreate handler returns in this step.
JoinReturns ==
    /\ JoinActs
    /\ tasks' = <<>> \/ tasks'[1].kind # "join"

\* On guild g every user flagged as banned is banned.
JoinedBans(g) == \A u \in Users : bans'[u] => banned'[<<g, u>>]

\* On guild g every member with an unexpired recorded timeout carries it, and
\* the handler has applied no expired entry.
JoinedTimeouts(g) ==
    /\ \A u \in Users :
            member'[<<g, u>>] /\ timeouts'[u] # None /\ timeouts'[u] > now'
                => tmo'[<<g, u>>] = timeouts'[u]
    /\ tasks[1].obs.stale = {}

\* On guild g every member with a record carries the Muted role exactly when
\* the record says muted.
JoinedMutes(g) ==
    \A u \in Users :
        member'[<<g, u>>] /\ mutedRoles'[u] # NoRec
            => role'[<<g, u>>] = mutedRoles'[u].muted

\* C25: when the guildCreate handler returns and no call has failed, the
\* joined guild has the recorded bans, the unexpired recorded timeouts and no
\* expired one, and the recorded Muted-role memberships.
C25_AsStated ==
    [][JoinReturns /\ fails' = 0 =>
        /\ JoinedBans(tasks[1].g)
        /\ JoinedTimeouts(tasks[1].g)
        /\ JoinedMutes(tasks[1].g)]_vars

\* C26: when the loop of syncBans is over, bannedMsg names exactly the guilds
\* whose ban list a call of this invocation has changed.
C26_AsStated ==
    \A t \in InFlight :
        t.sw.op = "ban" /\ t.sw.i = NGuilds + 1
            => t.sw.listed = t.sw.changed

\* A pass, or a replicator with calls still to make, is in flight.
Replicating ==
    \E t \in InFlight :
        \/ t.kind = "periodic"
        \/ t.sw.op \in {"ban", "tmo", "mute"} /\ t.sw.i \in Guilds

\* C27: a status emit that fails never ends a replicator or a pass: the
\* process does not terminate on rejected emits while one is in flight.
C27_AsStated ==
    [][unhandled = {"emit"} /\ Replicating => ~Halted']_vars

\* The first of two successive syncTimeouts invocations, its loop over and
\* none of its calls failed.
FirstTimeoutsOver ==
    {t \in InFlight : /\ t.kind = "twice" /\ t.pc = "first"
                      /\ t.sw.op = "tmo" /\ t.sw.i = NGuilds + 1
                      /\ t.sw.clean}

\* The call that a syncTimeouts sweep awaits on guild g: none when u is not a
\* member of g or g already shows the target.
NoTimeoutCallDue(sw) ==
    /\ sw.op = "tmo" /\ sw.i \in Guilds
    /\ ~member[<<sw.i, sw.u>>] \/ tmo[<<sw.i, sw.u>>] = sw.e

\* The result of the invocation t: syncData.timeouts[u] is the target, the
\* argument as it was normalised, and every guild where u is a member shows it.
TimeoutsPropagated(t) ==
    /\ t.sw.e \in {None, t.ev.newT}
    /\ timeouts[t.sw.u] = t.sw.e
    /\ \A g \in Guilds :
            member[<<g, t.sw.u>>] => tmo[<<g, t.sw.u>>] = t.sw.e

\* An iteration of a syncTimeouts loop issues no call to a guild that already
\* shows the target or where u is absent.
NoNeedlessTimeoutCall ==
    \A t \in InFlight :
        NoTimeoutCallDue(t.sw) => syncTimeoutsGuild(S, t.sw, TRUE).calls = calls

C29_DurableAtAwaits == env.writable => Durable

\* A replicator is suspended in its loop after syncData has received a
\* timeout and a Muted-role record, both of them in the file.
C29_Witness ==
    /\ \E t \in InFlight : t.sw.op \in {"ban", "tmo", "mute"} /\ t.sw.i \in Guilds
    /\ \E u \in Users :
            /\ timeouts[u] # None /\ disk.timeouts[u] = timeouts[u]
            /\ mutedRoles[u] # NoRec /\ disk.mutedRoles[u] = mutedRoles[u]

\* C30: a step that changes syncData.timeouts[u] either deletes the entry or
\* stores an expiry that is after the time of the write.
C30_FutureOnly ==
    [][\A u \in Users :
        timeouts'[u] # timeouts[u]
            => timeouts'[u] = None \/ timeouts'[u] > now']_vars

\* The handler of a timeout notification whose expiry had passed when it was
\* handled has deleted the entry instead of storing it, and awaits its sweep.
C30_Witness ==
    \E t \in InFlight :
        /\ t.kind = "event" /\ t.pc = "timeoutSweep" /\ t.sw.i \in Guilds
        /\ t.ev.newT # None /\ t.ev.newT <= now
        /\ t.sw.e = None
        /\ timeouts[t.sw.u] = None

\* --------------------------------------------------------------- C31 .. C36
\* C31 as stated: a pass called after the recorded timeout of a user had
\* expired, with nothing else pending then, that returns with no moderator
\* action and no failed call or fetch since and nothing left in flight, leaves
\* no expired entry for that user in syncData.timeouts, whatever guilds the
\* user is a member of.
C31_AsStated ==
    [][\A k \in 1..MaxPending :
        /\ PassReturns(k) /\ Undisturbed(tasks[k]) /\ Idle'
        /\ tasks[k].obs.quiet /\ tasks[k].obs.skipped = {}
        => \A u \in tasks[k].obs.lapsed :
                timeouts'[u] = None \/ timeouts'[u] > now']_vars

\* The first member of the collection that the member fetch of guild g returns.
FirstMember(g) ==
    {u \in Users : /\ member[<<g, u>>]
                   /\ \A v \in Users : member[<<g, v>>] => u <= v}

\* The member fetch of the pass in tasks[k] returns in this step and the scan
\* reaches the timeout comparison of the first member.
MemberScanned(k) ==
    FetchStep(k) /\ tasks[k].pc = "fetchMembers" /\ fails' = fails

\* Lines 370-386 for member u of the scanned guild: a live expiry that differs
\* from the recorded one is recorded and syncTimeouts is under way with it;
\* with equal values nothing is recorded, no guild changes and no syncTimeouts
\* is under way for the pass.
ScanAdopts(k, u) ==
    LET live == Live(tmo[<<tasks[k].g, u>>]) IN
    IF timeouts[u] # live
    THEN /\ timeouts'[u] = live
         /\ k \in DOMAIN tasks'
         /\ tasks'[k].pc = "tmoSweep"
         /\ tasks'[k].sw.op = "tmo" /\ tasks'[k].sw.u = u
         /\ tasks'[k].sw.e = live
    ELSE /\ timeouts' = timeouts /\ tmo' = tmo /\ queue' = queue
         /\ \/ tasks' = Remove(tasks, k)
            \/ tasks'[k].kind = "periodic" /\ tasks'[k].sw.op # "tmo"

\* The syncTimeouts invocations of the only pass so far whose loop is over,
\* the pass having been called with nothing else pending, with no failed call
\* and no moderator action since.
ScanSweepOver ==
    {t \in InFlight : /\ t.kind = "periodic" /\ t.pc = "tmoSweep"
                      /\ t.sw.i = NGuilds + 1 /\ t.sw.clean
                      /\ t.obs.quiet /\ t.obs.m0 = mods /\ t.obs.f0 = fails
                      /\ passes = 1}

\* The record and every guild where u is a member show the expiry e.
ShowsEverywhere(u, e) ==
    /\ timeouts[u] = e
    /\ \A g \in Guilds : member[<<g, u>>] => tmo[<<g, u>>] = e

\* The record and every guild where u is a member agree, an expired expiry
\* read as none.
AgreesEverywhere(u) ==
    \A g \in Guilds : member[<<g, u>>] => Live(tmo[<<g, u>>]) = Live(timeouts[u])

\* The scan step of C32.
ScanAdoptsLive ==
    \A k \in 1..MaxPending :
        MemberScanned(k) => \A u \in FirstMember(tasks[k].g) : ScanAdopts(k, u)

\* The state after the sweep of C32: the adopted expiry is shown everywhere
\* while it lies in the future (or is none).
AdoptedEverywhere ==
    \A t \in ScanSweepOver :
        /\ AgreesEverywhere(t.sw.u)
        /\ t.sw.e = None \/ now < t.sw.e => ShowsEverywhere(t.sw.u, t.sw.e)

MuteStep(k) == ReplicatorStep(k) /\ tasks[k].sw.op = "mute"

\* The step leaves guild g alone: no role created, no membership changed, no
\* call counted.
GuildLeftAlone(g, u) ==
    /\ grole'[g] = grole[g]
    /\ role'[<<g, u>>] = role[<<g, u>>]
    /\ calls'[g] = calls[g]

\* The syncMutedRole invocations whose loop is over with no failed call and
\* no moderator action since the invocation was triggered.
MuteSweepOver ==
    {t \in InFlight : /\ t.sw.op = "mute" /\ t.sw.i = NGuilds + 1
                      /\ t.sw.clean /\ t.sw.m0 = mods}

\* Every guild but the origin where the user is a member shows the target.
MutedAsTold(sw) ==
    \A g \in Guilds \ {sw.origin} :
        member[<<g, sw.u>>] => role[<<g, sw.u>>] = sw.b

\* A step of a syncMutedRole loop stays off the origin guild, and changes
\* nothing (and fails nowhere) on a guild where the user is not a member.
MuteFrame ==
    \A k \in 1..MaxPending :
        MuteStep(k) =>
            LET sw == tasks[k].sw IN
            /\ sw.i # sw.origin
            /\ GuildLeftAlone(sw.origin, sw.u)
            /\ ~member[<<sw.i, sw.u>>] =>
                    /\ \A g \in Guilds : GuildLeftAlone(g, sw.u)
                    /\ queue' = queue /\ fails' = fails

\* C33 as stated: a syncMutedRole(U, m, O) sweep issues no role add, remove or
\* create on O; on a guild where U is not a member it changes no membership
\* and creates no role; and when its loop is over with no failed call (and no
\* moderator action since it was triggered), U carries the Muted role on
\* every other guild where U is a member exactly when m.
C33_AsStated ==
    [][MuteFrame]_vars /\ [](\A t \in MuteSweepOver : MutedAsTold(t.sw))

\* The notification dispatched in this step is a ban-added or ban-removed
\* notification.
BanDelivered == Delivered /\ Head(queue).type \in {"banAdd", "banRemove"}

\* ... caused by a bans.create or bans.remove of the engine.
BanEchoDelivered == BanDelivered /\ Head(queue).src = "bot"

\* C34 as stated: the notification of a ban or unban that syncBans itself
\* made is dropped by its handler, which starts no syncBans and leaves the
\* ban flag as it is (checked while no pass has been started); and after a
\* single moderator ban or unban on guilds that agreed with the flags, with
\* no pass started, syncBans is invoked for the moderator's notification and
\* for no other.
C34_AsStated ==
    /\ [][BanEchoDelivered /\ passes = 0
            => tasks' = tasks /\ bans' = bans]_vars
    /\ [][BanDelivered /\ mods = 1 /\ passes = 0
            => (tasks' # tasks <=> Head(queue).src = "mod")]_vars

\* Every guild where the user is a member shows the recorded expiry.
TimeoutsAgree == \A p \in Pairs : member[p] => tmo[p] = timeouts[p[2]]

\* The awaited call of the syncTimeouts loop of task k returns or fails.
TmoStep(k) == ReplicatorStep(k) /\ tasks[k].sw.op = "tmo"

\* A member.timeout of syncTimeouts that changes the expiry of a guild is
\* notified as a member-updated event of that guild whose old and new expiry
\* differ.
EchoRaised ==
    \A k \in 1..MaxPending :
        TmoStep(k) /\ tmo' # tmo =>
            /\ Len(queue') = Len(queue) + 1
            /\ LET e == queue'[Len(queue')] IN
                /\ e.type = "memberUpdate" /\ e.src = "bot"
                /\ e.g = tasks[k].sw.i /\ TimeoutChanged(e)

\* The handler of a member-updated event whose expiry has changed invokes
\* syncTimeouts with the new expiry, whoever caused the event.
EchoInvokes ==
    Delivered /\ Head(queue).type = "memberUpdate" /\ TimeoutChanged(Head(queue))
        => /\ Len(tasks') = Len(tasks) + 1
           /\ tasks'[Len(tasks')].sw.op = "tmo"
           /\ tasks'[Len(tasks')].sw.e = NormalizeTimeout(now, Head(queue).newT)

RoleCreated(k) ==
    /\ k \in DOMAIN tasks
    /\ DOMAIN tasks' = DOMAIN tasks
    /\ tasks[k].sw.op \in {"mute", "revert", "correct"}
    /\ tasks[k].sw.i \in Guilds
    /\ tasks[k].sw.stage = "create"
    /\ tasks'[k].sw.stage = "apply"
    /\ fails' = fails
    /\ \A j \in DOMAIN tasks : j # k => tasks'[j] = tasks[j]

\* The syncMutedRole loop of task t has created the Muted role of guild g and
\* awaits its role call there (a sweep reaches that await through its own
\* roles.create only).
JustCreated(t, g) == t.sw.op = "mute" /\ t.sw.i = g /\ t.sw.stage = "apply"

\* C36 as stated: no roles.create of the engine returns on a guild whose
\* Muted role another operation of the engine has just created, so no guild
\* ends up with two Muted roles created by the engine.
C36_AsStated ==
    [][\A k \in 1..MaxPending :
        RoleCreated(k) =>
            ~\E j \in DOMAIN tasks :
                j # k /\ JustCreated(tasks[j], tasks[k].sw.i)]_vars

====
